---- MODULE Spec2Model ----
(***************************************************************************)
(* Model of the calculation core of codeFile.py (debt vs. investment       *)
(* calculator): calculate_payoff_months, remaining_balance, future_value,  *)
(* simulate_debt_payoffs, simulate_finances and the part of the script     *)
(* that calls them.                                                        *)
(*                                                                         *)
(* Amounts are Python floats in the source.  They are modelled as exact    *)
(* rationals <<n, d>> (d > 0, lowest terms), so every result below is a    *)
(* statement about the arithmetic the code writes down, without binary     *)
(* rounding.  A ZeroDivisionError is modelled as the value Raised.         *)
(***************************************************************************)
EXTENDS Integers, Sequences, FiniteSets, TLC

VARIABLES
    debts,             \* st.session_state.debts: list of debt records
    investments,       \* st.session_state.investments
    monthly_budget,    \* sidebar number input
    debt_allocation,   \* sidebar slider
    horizon_months,    \* projection horizon number input
    pc,                \* position of the script run
    payoffs,           \* locals of simulate_debt_payoffs
    finances,          \* locals of simulate_finances
    payoff_estimates,  \* value returned by simulate_debt_payoffs
    sim_df,            \* rows returned by simulate_finances
    prev,              \* history: what the previous script run rendered
    debts0,            \* history: the debt records as entered
    investments0,      \* history: the investment records as entered
    amort              \* locals of calculate_payoff_months and its arguments

vars == <<debts, investments, monthly_budget, debt_allocation, horizon_months,
          pc, payoffs, finances, payoff_estimates, sim_df, prev, debts0,
          investments0, amort>>

-----------------------------------------------------------------------------
(* Bounds of the model *)

\* longest debt list entered
MaxDebts == 2
\* largest projection horizon entered
MaxHorizon == 2
\* max_months handed to simulate_debt_payoffs (the script passes 120)
MaxMonths == 4
\* largest months argument tried on remaining_balance for a stuck debt
MaxStuckMonths == 3

(* Program constants *)

\* iteration ceiling of calculate_payoff_months
IterationCeiling == 1000
\* default_return_rate passed by the script
DefaultReturnRate == 7
\* payoff_months entry of a debt not paid off yet
None == -1
\* "N/A": reported for a debt not paid off within max_months
NA == -2

-----------------------------------------------------------------------------
(* Exact arithmetic on rationals <<numerator, denominator>> *)

RECURSIVE GCD(_, _)
GCD(a, b) == IF b = 0 THEN a ELSE GCD(b, a % b)

Abs(x) == IF x < 0 THEN -x ELSE x

LCM(a, b) == (a \div GCD(a, b)) * b

Norm(n, d) == LET g == GCD(Abs(n), d) IN <<n \div g, d \div g>>

Num(i) == <<i, 1>>

Zero == <<0, 1>>

One == <<1, 1>>

\* the value of an expression that raised ZeroDivisionError
Raised == <<0, 0>>

Add(a, b) ==
    LET l == LCM(a[2], b[2])
    IN  Norm(a[1] * (l \div a[2]) + b[1] * (l \div b[2]), l)

Neg(a) == <<-a[1], a[2]>>

Sub(a, b) == Add(a, Neg(b))

Mul(a, b) ==
    LET g1 == GCD(Abs(a[1]), b[2])
        g2 == GCD(Abs(b[1]), a[2])
    IN  <<(a[1] \div g1) * (b[1] \div g2), (a[2] \div g2) * (b[2] \div g1)>>

\* a / b; Python raises ZeroDivisionError when b is 0
Div(a, b) ==
    IF b[1] = 0 THEN Raised
    ELSE IF b[1] > 0 THEN Mul(a, <<b[2], b[1]>>)
    ELSE Mul(a, <<-b[2], -b[1]>>)

Lt(a, b) ==
    LET l == LCM(a[2], b[2])
    IN  a[1] * (l \div a[2]) < b[1] * (l \div b[2])

Le(a, b) == a = b \/ Lt(a, b)

Max(a, b) == IF Lt(a, b) THEN b ELSE a

Min(a, b) == IF Lt(b, a) THEN b ELSE a

RECURSIVE Pow(_, _)
Pow(a, n) == IF n = 0 THEN One ELSE Mul(a, Pow(a, n - 1))

\* annual percentage -> monthly rate: rate / 100 / 12
MonthlyRate(annual) == Div(Div(annual, Num(100)), Num(12))

-----------------------------------------------------------------------------
(* Inputs entered in the sidebar *)

\* a record of the debt form (amounts in currency units, rate in % a year)
Debt(amount_owed, interest_rate, min_payment) ==
    [AmountOwed |-> Num(amount_owed), InterestRate |-> Num(interest_rate),
     MinimumPayment |-> Num(min_payment)]

\* a record of the investment form
Investment(current_amount, monthly_contribution, return_rate) ==
    [CurrentAmount |-> Num(current_amount),
     MonthlyContribution |-> Num(monthly_contribution),
     ReturnRate |-> Num(return_rate)]

DebtChoices ==
    { Debt(8, 1200, 2), Debt(8, 600, 4), Debt(4, 0, 6), Debt(6, 600, 0),
      Debt(0, 600, 2) }

DebtLists == UNION { [1..n -> DebtChoices] : n \in 0..MaxDebts }

InvestmentLists ==
    { <<>>, << Investment(10, 2, 0), Investment(6, 1, 600) >> }

MonthlyBudgets == {0, 20}

\* slider positions between 0 and monthly_budget
Allocations(budget) == { a \in {0, 4, 12, 20} : a <= budget }

Horizons == {1, MaxHorizon}

-----------------------------------------------------------------------------
(* future_value *)

future_value(current_amount, monthly_contribution, annual_return_rate, months) ==
    LET r == MonthlyRate(annual_return_rate)
        growth == Pow(Add(One, r), months)
        annuity == Div(Sub(growth, One), r)
    IN  IF r # Zero
        THEN IF annuity = Raised THEN Raised
             ELSE Add(Mul(current_amount, growth),
                      Mul(monthly_contribution, annuity))
        ELSE Add(current_amount, Mul(monthly_contribution, Num(months)))

\* the loop "for inv in explicit_investments: explicit_total += future_value(...)"
RECURSIVE explicit_total(_, _)
explicit_total(explicit_investments, m) ==
    IF explicit_investments = <<>> THEN Zero
    ELSE LET inv == Head(explicit_investments)
             fv == future_value(inv.CurrentAmount, inv.MonthlyContribution,
                                inv.ReturnRate, m)
             rest == explicit_total(Tail(explicit_investments), m)
         IN  IF fv = Raised \/ rest = Raised THEN Raised ELSE Add(fv, rest)

-----------------------------------------------------------------------------
(* The month's allocation of debt_allocation to the debts: the same text in *)
(* simulate_debt_payoffs (lines 66-89) and simulate_finances (126-145)      *)

debt_interest_rates(ds) == [i \in DOMAIN ds |-> MonthlyRate(ds[i].InterestRate)]

debt_min_payments(ds) == [i \in DOMAIN ds |-> ds[i].MinimumPayment]

initial_balances(ds) == [i \in DOMAIN ds |-> ds[i].AmountOwed]

\* active_indices with the test written >= 0: paid-off debts stay active
active_indices_with_paid(debt_balances) ==
    { i \in DOMAIN debt_balances : Le(Zero, debt_balances[i]) }

active_indices(debt_balances) ==
    { i \in DOMAIN debt_balances : Lt(Zero, debt_balances[i]) }

\* sum(f[i] for i in S), S in ascending order
RECURSIVE SumOver(_, _)
SumOver(S, f) ==
    IF S = {} THEN Zero
    ELSE LET i == CHOOSE x \in S : \A y \in S : x <= y
         IN  Add(f[i], SumOver(S \ {i}, f))

\* sum(...) over a whole list, in list order
Sum(s) == SumOver(DOMAIN s, s)

total_min(ds, debt_balances) ==
    SumOver(active_indices(debt_balances), debt_min_payments(ds))

\* sorted_active with reverse=True left out: ascending and stable
RECURSIVE sorted_active_ascending(_, _)
sorted_active_ascending(active, ds) ==
    IF active = {} THEN <<>>
    ELSE LET first == CHOOSE i \in active : \A j \in active :
                         \/ Lt(ds[i].InterestRate, ds[j].InterestRate)
                         \/ ds[j].InterestRate = ds[i].InterestRate /\ i <= j
         IN  <<first>> \o sorted_active_ascending(active \ {first}, ds)

\* sorted(active_indices, key=Interest Rate, reverse=True): descending and stable
RECURSIVE sorted_active(_, _)
sorted_active(active, ds) ==
    IF active = {} THEN <<>>
    ELSE LET first == CHOOSE i \in active : \A j \in active :
                         \/ Lt(ds[j].InterestRate, ds[i].InterestRate)
                         \/ ds[j].InterestRate = ds[i].InterestRate /\ i <= j
         IN  <<first>> \o sorted_active(active \ {first}, ds)

\* ScaleDown with the comparison written <=: total_min = 0 would be divided by
ScaleDownOrEqual(allocation, tmin) == Le(allocation, tmin)

\* "if debt_allocation < total_min": scale the minimums down
ScaleDown(allocation, tmin) == Lt(allocation, tmin)

\* the loop over sorted_active handing out the extra
RECURSIVE allocate_extra(_, _, _, _, _)
allocate_extra(order, payments, extra, debt_balances, rates) ==
    IF order = <<>> \/ Le(extra, Zero) THEN payments
    ELSE LET i == Head(order)
             payment_needed == Mul(debt_balances[i], Add(One, rates[i]))
             extra_needed == Max(Sub(payment_needed, payments[i]), Zero)
             extra_payment == Min(extra, extra_needed)
         IN  allocate_extra(Tail(order),
                            [payments EXCEPT ![i] = Add(@, extra_payment)],
                            Sub(extra, extra_payment), debt_balances, rates)

\* scaled_payment without the scaling: the shares would exceed the allocation
scaled_payment_unscaled(min_payment, allocation, tmin) == min_payment

\* "payments[i] = debt_min_payments[i] * (debt_allocation / total_min)"
scaled_payment(min_payment, allocation, tmin) ==
    Mul(min_payment, Div(allocation, tmin))

\* the division debt_allocation / total_min raises
allocation_raises(ds, debt_balances, allocation) ==
    /\ active_indices(debt_balances) # {}
    /\ ScaleDown(Num(allocation), total_min(ds, debt_balances))
    /\ total_min(ds, debt_balances) = Zero

month_payments(ds, debt_balances, allocation) ==
    LET active == active_indices(debt_balances)
        tmin == total_min(ds, debt_balances)
        mins == debt_min_payments(ds)
        none == [i \in DOMAIN debt_balances |-> Zero]
    IN  IF active = {} THEN none
        ELSE IF ScaleDown(Num(allocation), tmin)
        THEN [i \in DOMAIN debt_balances |->
                IF i \in active THEN scaled_payment(mins[i], Num(allocation), tmin)
                ELSE Zero]
        ELSE allocate_extra(sorted_active(active, ds),
                            [i \in DOMAIN debt_balances |->
                                IF i \in active THEN mins[i] ELSE Zero],
                            Sub(Num(allocation), tmin),
                            debt_balances, debt_interest_rates(ds))

\* new_balance with the payment's sign slipped
new_balance_added(balance, monthly_rate, payment) ==
    Add(Mul(balance, Add(One, monthly_rate)), payment)

\* "new_balance = debt_balances[i] * (1 + debt_interest_rates[i]) - payments[i]"
new_balance(balance, monthly_rate, payment) ==
    Sub(Mul(balance, Add(One, monthly_rate)), payment)

\* "Update each debt balance"
updated_balances(ds, debt_balances, payments) ==
    [i \in DOMAIN debt_balances |->
        IF Lt(Zero, debt_balances[i])
        THEN Max(new_balance(debt_balances[i], debt_interest_rates(ds)[i],
                             payments[i]), Zero)
        ELSE debt_balances[i]]

-----------------------------------------------------------------------------
(* The script run: simulate_debt_payoffs, then simulate_finances *)

NoFrame == <<>>

NoAmort == <<>>

zeros(ds) == [i \in DOMAIN ds |-> Zero]

\* what a script run leaves untouched: the session's records and the widgets
inputs == <<debts, investments, monthly_budget, horizon_months, debts0,
            investments0, amort>>

\* line 311: "if st.session_state.debts" holds; lines 60-63
simulate_debt_payoffs_call ==
    /\ pc = "ready"
    /\ debts # <<>>
    /\ payoffs' = [debt_balances |-> initial_balances(debts),
                   payoff_months |-> [i \in DOMAIN debts |-> None],
                   m |-> 1,
                   payments |-> zeros(debts),
                   before |-> initial_balances(debts)]
    /\ pc' = "payoffs"
    /\ UNCHANGED <<inputs, debt_allocation, finances, payoff_estimates, sim_df, prev>>

\* one pass of "for m in range(1, max_months+1)", lines 65-97
payoffs_iter_body ==
    /\ pc = "payoffs"
    /\ payoffs.m <= MaxMonths
    /\ active_indices(payoffs.debt_balances) # {}
    /\ IF allocation_raises(debts, payoffs.debt_balances, debt_allocation)
       THEN pc' = "raised" /\ UNCHANGED payoffs
       ELSE LET payments == month_payments(debts, payoffs.debt_balances,
                                           debt_allocation)
                new == updated_balances(debts, payoffs.debt_balances, payments)
            IN  /\ payoffs' =
                     [debt_balances |-> new,
                      payoff_months |->
                         [i \in DOMAIN new |->
                            IF /\ Lt(Zero, payoffs.debt_balances[i])
                               /\ new[i] = Zero
                               /\ payoffs.payoff_months[i] = None
                            THEN payoffs.m
                            ELSE payoffs.payoff_months[i]],
                      m |-> payoffs.m + 1,
                      payments |-> payments,
                      before |-> payoffs.debt_balances]
                /\ pc' = "payoffs"
    /\ UNCHANGED <<debt_allocation, finances, payoff_estimates, sim_df, prev>>

simulate_debt_payoffs_iter == payoffs_iter_body /\ UNCHANGED inputs

\* the loop ends (break or range exhausted); lines 99-102
simulate_debt_payoffs_return ==
    /\ pc = "payoffs"
    /\ payoffs.m > MaxMonths \/ active_indices(payoffs.debt_balances) = {}
    /\ payoff_estimates' =
          [i \in DOMAIN payoffs.payoff_months |->
              IF payoffs.payoff_months[i] = None THEN NA
              ELSE payoffs.payoff_months[i]]
    /\ pc' = "call_finances"
    /\ UNCHANGED <<inputs, debt_allocation, payoffs, finances, sim_df, prev>>

\* lines 307-311 with no debt entered: no payoff table
no_debts ==
    /\ pc = "ready"
    /\ debts = <<>>
    /\ pc' = IF investments = <<>> THEN "rendered" ELSE "call_finances"
    /\ UNCHANGED <<inputs, debt_allocation, payoffs, finances, payoff_estimates,
                   sim_df, prev>>

\* line 369; lines 118-123
simulate_finances_call ==
    /\ pc = "call_finances"
    /\ finances' = [debt_balances |-> initial_balances(debts),
                    default_balance |-> Zero,
                    m |-> 0,
                    payments |-> zeros(debts),
                    before |-> initial_balances(debts),
                    simulation |-> <<>>]
    /\ pc' = "finances"
    /\ UNCHANGED <<inputs, debt_allocation, payoffs, payoff_estimates, sim_df, prev>>

\* one pass of "for m in range(horizon_months + 1)", lines 124-175
finances_iter_body ==
    /\ pc = "finances"
    /\ finances.m <= horizon_months
    /\ IF \/ allocation_raises(debts, finances.debt_balances, debt_allocation)
          \/ explicit_total(investments, finances.m) = Raised
       THEN pc' = "raised" /\ UNCHANGED finances
       ELSE LET m == finances.m
                payments == month_payments(debts, finances.debt_balances,
                                           debt_allocation)
                new == updated_balances(debts, finances.debt_balances, payments)
                total_debt == Sum(new)
                investment_allocation == Sub(Num(monthly_budget),
                                             Num(debt_allocation))
                default_balance ==
                    IF m > 0
                    THEN Add(Mul(finances.default_balance,
                                 Add(One, MonthlyRate(Num(DefaultReturnRate)))),
                             investment_allocation)
                    ELSE finances.default_balance
                explicit == explicit_total(investments, m)
                total_investments == Add(default_balance, explicit)
                row == [Month |-> m,
                        NetWorth |-> Sub(total_investments, total_debt),
                        TotalDebt |-> Neg(total_debt),
                        TotalInvestments |-> total_investments,
                        DefaultInvestment |-> default_balance,
                        ExplicitInvestments |-> explicit,
                        DebtPayments |-> Sum(payments)]
            IN  /\ finances' =
                     [debt_balances |-> new,
                      default_balance |-> default_balance,
                      m |-> m + 1,
                      payments |-> payments,
                      before |-> finances.debt_balances,
                      simulation |-> Append(finances.simulation, row)]
                /\ pc' = "finances"
    /\ UNCHANGED <<debt_allocation, payoffs, payoff_estimates, sim_df, prev>>

\* simulate_finances_iter writing the balances into the debt records instead
\* of a copy
simulate_finances_iter_in_place ==
    /\ finances_iter_body
    /\ debts' = [i \in DOMAIN debts |->
                   [debts[i] EXCEPT !.AmountOwed = finances'.debt_balances[i]]]
    /\ UNCHANGED <<investments, monthly_budget, horizon_months, debts0,
                   investments0, amort>>

simulate_finances_iter == finances_iter_body /\ UNCHANGED inputs

\* line 176
simulate_finances_return ==
    /\ pc = "finances"
    /\ finances.m > horizon_months
    /\ sim_df' = finances.simulation
    /\ pc' = "rendered"
    /\ UNCHANGED <<inputs, debt_allocation, payoffs, finances, payoff_estimates, prev>>

\* the slider is moved (or any widget touched): the script runs again, lines 200-206
rerun ==
    /\ pc = "rendered"
    /\ \E a \in Allocations(monthly_budget) : debt_allocation' = a
    /\ prev' = << [debt_allocation |-> debt_allocation,
                   payoff_estimates |-> payoff_estimates,
                   sim_df |-> sim_df] >>
    /\ payoffs' = NoFrame
    /\ finances' = NoFrame
    /\ payoff_estimates' = <<>>
    /\ sim_df' = <<>>
    /\ pc' = "ready"
    /\ UNCHANGED inputs

Init ==
    /\ debts \in DebtLists
    /\ investments \in InvestmentLists
    /\ monthly_budget \in MonthlyBudgets
    /\ debt_allocation \in Allocations(monthly_budget)
    /\ horizon_months \in Horizons
    /\ pc = "ready"
    /\ payoffs = NoFrame
    /\ finances = NoFrame
    /\ payoff_estimates = <<>>
    /\ sim_df = <<>>
    /\ prev = <<>>
    /\ debts0 = debts
    /\ investments0 = investments
    /\ amort = NoAmort

Next ==
    \/ simulate_debt_payoffs_call
    \/ simulate_debt_payoffs_iter
    \/ simulate_debt_payoffs_return
    \/ no_debts
    \/ simulate_finances_call
    \/ simulate_finances_iter
    \/ simulate_finances_return
    \/ rerun

Spec == Init /\ [][Next]_vars

-----------------------------------------------------------------------------
(* Claims about the month-by-month simulation (Spec) *)

\* simulate_debt_payoffs has run a month: payoffs.before and payoffs.payments
\* are that month's opening balances and payments
PayoffsMonthRun == payoffs # NoFrame /\ payoffs.m > 1

\* simulate_finances has run a month
FinancesMonthRun == finances # NoFrame /\ finances.m > 0

\* what must be paid to retire debt i this month
PayoffAmount(before, i) ==
    Mul(before[i], Add(One, Div(debts[i].InterestRate, Num(1200))))

\* debt j is ahead of debt i in the avalanche: higher rate, or same rate and
\* earlier in the list
Ahead(j, i) ==
    \/ Lt(debts[i].InterestRate, debts[j].InterestRate)
    \/ debts[i].InterestRate = debts[j].InterestRate /\ j < i

\* the sum of the minimum payments of the debts with a positive balance
TotalMinimum(before) ==
    SumOver({i \in DOMAIN before : before[i] # Zero /\ before[i][1] > 0},
            [i \in DOMAIN before |-> debts[i].MinimumPayment])

\* C1: the month-0 row of simulate_finances has Debt Payments = 0, a total debt
\* equal to the sum of the initial Amount Owed, a default investment of 0 and
\* an explicit-investment total equal to the sum of the Current Amounts.
C1_MonthZeroIsTheStartingSnapshot ==
    (finances # NoFrame /\ Len(finances.simulation) >= 1) =>
        LET row == finances.simulation[1]
        IN  /\ row.Month = 0
            /\ row.DebtPayments = Zero
            /\ Neg(row.TotalDebt) =
                  SumOver(DOMAIN debts, [i \in DOMAIN debts |-> debts[i].AmountOwed])
            /\ row.DefaultInvestment = Zero
            /\ row.ExplicitInvestments =
                  SumOver(DOMAIN investments,
                          [i \in DOMAIN investments |-> investments[i].CurrentAmount])

\* a month in which the allocation covers the minimums: every active debt gets
\* at least its minimum, and more than it only if every debt ahead of it is
\* paid off in that month
AvalancheMonth(before, payments, after) ==
    Le(TotalMinimum(before), Num(debt_allocation)) =>
        \A i \in DOMAIN before : Lt(Zero, before[i]) =>
            /\ Le(debts[i].MinimumPayment, payments[i])
            /\ Lt(debts[i].MinimumPayment, payments[i]) =>
                  \A j \in DOMAIN before :
                      (Lt(Zero, before[j]) /\ Ahead(j, i)) => after[j] = Zero

\* C3: when debt_allocation >= the sum of the active debts' minimums, every
\* active debt receives at least its minimum and the remainder goes in
\* descending order of interest rate (ties in list order): a debt receives
\* more than its minimum only if every active debt with a higher rate is paid
\* off in that month; in simulate_debt_payoffs and in simulate_finances.
C3_MinimumsThenHighestRateFirst ==
    /\ PayoffsMonthRun =>
          AvalancheMonth(payoffs.before, payoffs.payments, payoffs.debt_balances)
    /\ FinancesMonthRun =>
          AvalancheMonth(finances.before, finances.payments, finances.debt_balances)

\* C3 witness: in a month of simulate_finances the extra retired the
\* higher-rate debt and the rest of it reached the next debt
C3_Witness ==
    /\ FinancesMonthRun
    /\ Le(TotalMinimum(finances.before), Num(debt_allocation))
    /\ \E i, j \in DOMAIN debts :
          /\ Lt(Zero, finances.before[i]) /\ Lt(Zero, finances.before[j])
          /\ Lt(debts[i].InterestRate, debts[j].InterestRate)
          /\ Lt(debts[i].MinimumPayment, finances.payments[i])
          /\ Lt(debts[j].MinimumPayment, finances.payments[j])

\* a month in which the allocation is short of the minimums: pro-rata shares
ShortMonth(before, payments) ==
    Lt(Num(debt_allocation), TotalMinimum(before)) =>
        /\ \A i \in DOMAIN before :
              IF Lt(Zero, before[i])
              THEN Mul(payments[i], TotalMinimum(before)) =
                      Mul(debts[i].MinimumPayment, Num(debt_allocation))
              ELSE payments[i] = Zero
        /\ SumOver(DOMAIN payments, payments) = Num(debt_allocation)

\* C4: when debt_allocation is less than the sum of the active debts'
\* minimums, each active debt is paid minimum * debt_allocation / total_minimum
\* whatever its rate or position, inactive debts are paid 0, and the month's
\* payments sum to debt_allocation.
C4_ShortfallIsProRata ==
    /\ PayoffsMonthRun => ShortMonth(payoffs.before, payoffs.payments)
    /\ FinancesMonthRun => ShortMonth(finances.before, finances.payments)

\* C4 witness: a short month with two active debts of different minimums and
\* a positive allocation
C4_Witness ==
    /\ PayoffsMonthRun
    /\ debt_allocation > 0
    /\ Lt(Num(debt_allocation), TotalMinimum(payoffs.before))
    /\ \E i, j \in DOMAIN debts :
          /\ Lt(Zero, payoffs.before[i]) /\ Lt(Zero, payoffs.before[j])
          /\ Lt(debts[i].MinimumPayment, debts[j].MinimumPayment)
          /\ Lt(Zero, payoffs.payments[i])

\* no payment of the month exceeds what retires its debt
NoOverpayment(before, payments) ==
    \A i \in DOMAIN before : Le(payments[i], PayoffAmount(before, i))

\* C5: in every simulated month the payment assigned to a debt never exceeds
\* the amount that pays it off that month, balance * (1 + monthly rate), also
\* when the minimum payment alone is larger than that.
C5_NoPaymentBeyondPayoff ==
    /\ PayoffsMonthRun => NoOverpayment(payoffs.before, payoffs.payments)
    /\ FinancesMonthRun => NoOverpayment(finances.before, finances.payments)

\* the total debt (a positive amount) of row number m of a returned projection
TotalDebtOf(rows, m) == Neg(rows[m + 1].TotalDebt)

\* the previous script run rendered a projection and so did this one
TwoProjections == pc = "rendered" /\ prev # <<>> /\ sim_df # <<>>

\* C6: with everything else fixed, for allocations a1 <= a2 the total debt of
\* simulate_finances with a2 is at most the one with a1 at every month m >= 1.
C6_MoreAllocationNeverMoreDebt ==
    (TwoProjections /\ prev[1].debt_allocation <= debt_allocation) =>
        \A m \in 1..horizon_months :
            Le(TotalDebtOf(sim_df, m), TotalDebtOf(prev[1].sim_df, m))

\* C6 witness: two projections, the second with the larger allocation, in
\* which the larger allocation has retired a debt that the smaller has not
C6_Witness ==
    /\ TwoProjections
    /\ prev[1].debt_allocation < debt_allocation
    /\ Len(debts) = 2
    /\ active_indices(finances.debt_balances) # {}
    /\ \E m \in 1..horizon_months :
          Lt(TotalDebtOf(sim_df, m), TotalDebtOf(prev[1].sim_df, m))
    /\ \E i \in DOMAIN debts :
          /\ finances.debt_balances[i] = Zero
          /\ Lt(Zero, debts[i].AmountOwed)

\* C7: simulate_finances and simulate_debt_payoffs never modify the records
\* they are given, so two successive calls with the same inputs return the
\* same rows and the same payoff list.
C7_InputsUntouchedAndRunsRepeat ==
    /\ debts = debts0
    /\ investments = investments0
    /\ (pc = "rendered" /\ prev # <<>> /\ prev[1].debt_allocation = debt_allocation)
          => /\ prev[1].sim_df = sim_df
             /\ prev[1].payoff_estimates = payoff_estimates

\* C7 witness: a second run with the same allocation has rendered, and the
\* simulation has changed a balance in its local copy
C7_Witness ==
    /\ pc = "rendered"
    /\ prev # <<>>
    /\ prev[1].debt_allocation = debt_allocation
    /\ sim_df # <<>>
    /\ debts # <<>>
    /\ finances.debt_balances # initial_balances(debts)
    /\ investments # <<>>

\* C9: with validated inputs no operation divides by zero: the pro-rata branch
\* divides by total_min only when it is positive (also when every active debt
\* has a minimum of 0, debt_allocation is 0 or no debt is active), and
\* future_value divides by the monthly rate only when it is not zero.
C9_NoDivisionByZero ==
    /\ pc # "raised"
    /\ \A i \in DOMAIN investments : \A m \in 0..horizon_months :
          future_value(investments[i].CurrentAmount,
                       investments[i].MonthlyContribution,
                       investments[i].ReturnRate, m) # Raised

\* C9 witness: a month ran with debt_allocation = 0 and an active debt whose
\* minimum is 0 (total_min = 0), with a zero-rate investment valued
C9_Witness ==
    /\ FinancesMonthRun
    /\ debt_allocation = 0
    /\ active_indices(finances.before) # {}
    /\ TotalMinimum(finances.before) = Zero
    /\ \E i \in DOMAIN investments : investments[i].ReturnRate = Zero
    /\ pc = "rendered"

\* the latest payoff month reported by simulate_debt_payoffs
LatestPayoff ==
    CHOOSE p \in {payoff_estimates[i] : i \in DOMAIN payoff_estimates} :
        \A i \in DOMAIN payoff_estimates : payoff_estimates[i] <= p

\* C10: if simulate_debt_payoffs reports a payoff month for every debt, the
\* latest being p <= horizon, then the total debt of row m of simulate_finances
\* is positive for every m < p and zero for every m >= p.
C10_ProjectionClearsDebtInThePayoffMonth ==
    (/\ pc = "rendered"
     /\ payoff_estimates # <<>>
     /\ \A i \in DOMAIN payoff_estimates : payoff_estimates[i] # NA
     /\ LatestPayoff <= horizon_months) =>
        \A m \in 0..horizon_months :
            IF m < LatestPayoff
            THEN Lt(Zero, TotalDebtOf(sim_df, m))
            ELSE TotalDebtOf(sim_df, m) = Zero

\* the rows simulate_finances has appended so far
Rows == IF finances = NoFrame THEN <<>> ELSE finances.simulation

\* C11: in every row of simulate_finances Debt Payments is between 0 and
\* debt_allocation, so Debt Payments plus the month's default-investment
\* contribution (monthly_budget - debt_allocation) never exceeds
\* monthly_budget; and once every debt balance is 0, Debt Payments is 0 in all
\* later rows.
C11_DebtPaymentsWithinAllocation ==
    \A k \in DOMAIN Rows :
        /\ Le(Zero, Rows[k].DebtPayments)
        /\ Le(Rows[k].DebtPayments, Num(debt_allocation))
        /\ Le(Add(Rows[k].DebtPayments, Num(monthly_budget - debt_allocation)),
              Num(monthly_budget))
        /\ \A j \in DOMAIN Rows :
              (j < k /\ Rows[j].TotalDebt = Zero) => Rows[k].DebtPayments = Zero

\* C11 witness: two debts were paid with part of the allocation left over in
\* a row, the total debt reached 0, and a later row has been appended
C11_Witness ==
    /\ Len(debts) = 2
    /\ \A i \in DOMAIN debts : Lt(Zero, debts[i].AmountOwed)
    /\ \E j, k \in DOMAIN Rows :
          /\ j < k
          /\ Lt(Zero, Rows[j].DebtPayments)
          /\ Lt(Rows[j].DebtPayments, Num(debt_allocation))
          /\ Rows[j].TotalDebt = Zero
          /\ Rows[k].DebtPayments = Zero

-----------------------------------------------------------------------------
(* calculate_payoff_months and remaining_balance *)

Principals == {0, 8, 20, 1001}

AnnualRates == {0, 600, 1200}

Payments == {0, 1, 4, 11, 21}

\* cannot_pay with the comparison written strict: a payment equal to the
\* interest would then enter the loop
cannot_pay_strict(payment, balance, monthly_rate) ==
    Lt(payment, Mul(balance, monthly_rate))

\* "if payment <= balance * monthly_rate" (lines 17 and 31)
cannot_pay(payment, balance, monthly_rate) ==
    Le(payment, Mul(balance, monthly_rate))

\* "balance = balance * (1 + monthly_rate) - payment" (lines 20 and 33)
amortize(balance, monthly_rate, payment) ==
    Sub(Mul(balance, Add(One, monthly_rate)), payment)

\* what the script's variables hold while only the helpers are exercised
script_vars == <<debts, investments, monthly_budget, debt_allocation,
                 horizon_months, pc, payoffs, finances, payoff_estimates,
                 sim_df, prev, debts0, investments0>>

\* line 17 of calculate_payoff_months
calculate_payoff_months_check ==
    /\ amort # NoAmort
    /\ amort.at = "check"
    /\ amort' = IF cannot_pay(amort.payment, amort.balance,
                              MonthlyRate(amort.annual_interest_rate))
                THEN [amort EXCEPT !.at = "returned", !.result = None]
                ELSE [amort EXCEPT !.at = "loop"]
    /\ UNCHANGED script_vars

\* one pass of "while balance > 0 and months < 1000", lines 19-21
calculate_payoff_months_iter ==
    /\ amort # NoAmort
    /\ amort.at = "loop"
    /\ Lt(Zero, amort.balance) /\ amort.months < IterationCeiling
    /\ amort' = [amort EXCEPT
                   !.balance = amortize(@, MonthlyRate(amort.annual_interest_rate),
                                        amort.payment),
                   !.months = @ + 1]
    /\ UNCHANGED script_vars

\* line 22
calculate_payoff_months_return ==
    /\ amort # NoAmort
    /\ amort.at = "loop"
    /\ ~(Lt(Zero, amort.balance) /\ amort.months < IterationCeiling)
    /\ amort' = [amort EXCEPT !.at = "returned", !.result = amort.months]
    /\ UNCHANGED script_vars

\* remaining_balance(amount, annual_interest_rate, payment, months) is called
\* with the arguments of the call that returned; lines 28-29
remaining_balance_call ==
    /\ amort # NoAmort
    /\ amort.at = "returned"
    /\ \E months \in (IF amort.result = None THEN 0..MaxStuckMonths
                      ELSE {amort.result - 1, amort.result} \cap Nat) :
          amort' = [amort EXCEPT !.at = "rb_loop",
                                 !.rb_months = months,
                                 !.rb_balance = amort.amount,
                                 !.rb_m = 0]
    /\ UNCHANGED script_vars

\* one pass of "for m in range(months)", lines 30-35
remaining_balance_iter ==
    /\ amort # NoAmort
    /\ amort.at = "rb_loop"
    /\ amort.rb_m < amort.rb_months
    /\ LET rate == MonthlyRate(amort.annual_interest_rate)
           b == amortize(amort.rb_balance, rate, amort.payment)
       IN  amort' =
             IF cannot_pay(amort.payment, amort.rb_balance, rate)
             THEN [amort EXCEPT !.at = "rb_returned",
                                !.rb_result = Max(amort.rb_balance, Zero)]
             ELSE IF Le(b, Zero)
             THEN [amort EXCEPT !.at = "rb_returned", !.rb_balance = b,
                                !.rb_result = Zero]
             ELSE [amort EXCEPT !.rb_balance = b, !.rb_m = @ + 1]
    /\ UNCHANGED script_vars

\* the range is exhausted; line 36
remaining_balance_return ==
    /\ amort # NoAmort
    /\ amort.at = "rb_loop"
    /\ amort.rb_m >= amort.rb_months
    /\ amort' = [amort EXCEPT !.at = "rb_returned",
                              !.rb_result = Max(amort.rb_balance, Zero)]
    /\ UNCHANGED script_vars

\* a call calculate_payoff_months(amount, annual_interest_rate, payment), lines 14-16
InitAmort ==
    /\ \E amount \in Principals, rate \in AnnualRates, payment \in Payments :
          amort = [amount |-> Num(amount),
                   annual_interest_rate |-> Num(rate),
                   payment |-> Num(payment),
                   balance |-> Num(amount),
                   months |-> 0,
                   at |-> "check",
                   result |-> None,
                   rb_months |-> 0,
                   rb_balance |-> Zero,
                   rb_m |-> 0,
                   rb_result |-> Zero]
    /\ debts = <<>>
    /\ investments = <<>>
    /\ monthly_budget = 0
    /\ debt_allocation = 0
    /\ horizon_months = 1
    /\ pc = "helpers"
    /\ payoffs = NoFrame
    /\ finances = NoFrame
    /\ payoff_estimates = <<>>
    /\ sim_df = <<>>
    /\ prev = <<>>
    /\ debts0 = <<>>
    /\ investments0 = <<>>

NextAmort ==
    \/ calculate_payoff_months_check
    \/ calculate_payoff_months_iter
    \/ calculate_payoff_months_return
    \/ remaining_balance_call
    \/ remaining_balance_iter
    \/ remaining_balance_return

SpecAmort == InitAmort /\ [][NextAmort]_vars

-----------------------------------------------------------------------------
(* Claims about calculate_payoff_months and remaining_balance (SpecAmort) *)

\* calculate_payoff_months has returned
Returned == amort # NoAmort /\ amort.at \in {"returned", "rb_loop", "rb_returned"}

\* the payment does not exceed the first month's interest: K <= P*R/1200
Stuck ==
    Le(amort.payment,
       Div(Mul(amort.amount, amort.annual_interest_rate), Num(1200)))

\* C2: for P > 0, R >= 0 and K > P*R/1200, calculate_payoff_months returns a
\* finite n with remaining_balance(P, R, K, n) = 0 and
\* remaining_balance(P, R, K, n-1) > 0; it never returns a finite n at which
\* the balance is still positive.
C2_PayoffMonthsRetireTheDebt ==
    (Returned /\ Lt(Zero, amort.amount) /\ ~Stuck) =>
        /\ amort.result # None
        /\ amort.at = "rb_returned" =>
              /\ amort.rb_months = amort.result => amort.rb_result = Zero
              /\ amort.rb_months = amort.result - 1 => Lt(Zero, amort.rb_result)

\* C8: for P >= 0, R >= 0, K >= 0 with K <= P*R/1200, calculate_payoff_months
\* returns None without executing a loop iteration, and remaining_balance
\* returns the unchanged balance P for every number of months.
C8_StuckDebtIsUnreachable ==
    (amort # NoAmort /\ Stuck) =>
        /\ amort.at # "loop"
        /\ amort.months = 0
        /\ amort.balance = amort.amount
        /\ Returned => amort.result = None
        /\ amort.at = "rb_returned" => amort.rb_result = amort.amount

\* C8 witness: for a payment equal to the first month's interest, K > 0,
\* calculate_payoff_months returned None and remaining_balance, asked for the
\* balance after MaxStuckMonths months, has returned
C8_Witness ==
    /\ amort # NoAmort
    /\ amort.at = "rb_returned"
    /\ amort.rb_months = MaxStuckMonths
    /\ Lt(Zero, amort.payment)
    /\ amort.payment = Mul(amort.amount, MonthlyRate(amort.annual_interest_rate))
    /\ amort.result = None

====
